---- MODULE Spec2Model ----
(***************************************************************************)
(* Model of src/src/main.rs: a hash-linked chain of blocks (Block,         *)
(* Blockchain) and the node actors (Node::run) that mine, gossip and       *)
(* reconcile chains over bounded mailboxes.                                *)
(*                                                                         *)
(* Text (String) is a sequence of one-character strings, so that the       *)
(* concatenation fed to the hasher and the hex prefix test are computed    *)
(* character by character as the code does.                                *)
(***************************************************************************)
EXTENDS Integers, Sequences, FiniteSets, Bags, TLC

(***************************************************************************)
(* Bounds of the model.                                                    *)
(***************************************************************************)
\* hex characters of a digest (64 for SHA-256)
DigestHexLen == 3
\* the nonce search of mine_block is cut off above this nonce
MaxNonce == 13
\* largest difficulty a Blockchain is constructed with
MaxDifficulty == 1

(***************************************************************************)
(* Text helpers.                                                           *)
(***************************************************************************)
HexDigits == <<"0", "1", "2", "3", "4", "5", "6", "7",
               "8", "9", "a", "b", "c", "d", "e", "f">>

\* the byte value of a character (ASCII)
Byte(c) ==
    CASE c = "0" -> 48 [] c = "1" -> 49 [] c = "2" -> 50 [] c = "3" -> 51
      [] c = "4" -> 52 [] c = "5" -> 53 [] c = "6" -> 54 [] c = "7" -> 55
      [] c = "8" -> 56 [] c = "9" -> 57
      [] c = "a" -> 97 [] c = "b" -> 98 [] c = "c" -> 99 [] c = "d" -> 100
      [] c = "e" -> 101 [] c = "f" -> 102
      [] c = " " -> 32 [] c = "H" -> 72 [] c = "T" -> 84 [] c = "h" -> 104
      [] c = "i" -> 105 [] c = "r" -> 114 [] c = "x" -> 120 [] c = "y" -> 121

\* u64::to_string / u128::to_string: decimal digits, no padding
RECURSIVE to_string(_)
to_string(n) ==
    IF n < 10 THEN <<HexDigits[n + 1]>>
    ELSE to_string(n \div 10) \o <<HexDigits[(n % 10) + 1]>>

\* "0".repeat(n)
RECURSIVE repeat(_, _)
repeat(c, n) == IF n = 0 THEN <<>> ELSE <<c>> \o repeat(c, n - 1)

\* str::starts_with
starts_with(s, prefix) ==
    /\ Len(prefix) <= Len(s)
    /\ SubSeq(s, 1, Len(prefix)) = prefix

(***************************************************************************)
(* The digest.  Sha256 is modelled by a small multiplicative digest over   *)
(* the same byte stream: deterministic, order sensitive, DigestHexLen hex  *)
(* characters wide.                                                        *)
(***************************************************************************)
RECURSIVE Pow16(_)
Pow16(n) == IF n = 0 THEN 1 ELSE 16 * Pow16(n - 1)

DigestSpace == Pow16(DigestHexLen)

DigestMult == 2531

\* Sha256::new()
HasherNew == 7

\* hasher.update(bytes)
RECURSIVE update(_, _)
update(h, s) ==
    IF s = <<>> THEN h
    ELSE update(((h + Byte(Head(s))) * DigestMult) % DigestSpace, Tail(s))

\* hex::encode(hasher.finalize()): fixed width, lowercase
RECURSIVE HexOfWidth(_, _)
HexOfWidth(v, w) ==
    IF w = 0 THEN <<>>
    ELSE HexOfWidth(v \div 16, w - 1) \o <<HexDigits[(v % 16) + 1]>>

hex_encode(h) == HexOfWidth(h, DigestHexLen)

(***************************************************************************)
(* Block                                                                   *)
(***************************************************************************)
compute_hash(index, timestamp, data, previous_hash, nonce) ==
    LET h1 == update(HasherNew, to_string(index))
        h2 == update(h1, to_string(timestamp))
        h3 == update(h2, data)
        h4 == update(h3, previous_hash)
        h5 == update(h4, to_string(nonce))
    IN  hex_encode(h5)

Block(index, timestamp, data, previous_hash, hash, nonce) ==
    [index |-> index, timestamp |-> timestamp, data |-> data,
     previous_hash |-> previous_hash, hash |-> hash, nonce |-> nonce]

new_block(index, timestamp, data, previous_hash, nonce) ==
    Block(index, timestamp, data, previous_hash,
          compute_hash(index, timestamp, data, previous_hash, nonce), nonce)

genesis_block ==
    new_block(0, 0, <<"H", "i", " ", "T", "h", "e", "r", "e">>, <<"0">>, 0)

\* the value standing for a search that has not returned (no qualifying
\* nonce up to MaxNonce)
NoBlock == [index |-> -1]

\* the loop of mine_block from a given nonce upward
RECURSIVE mine_from(_, _, _, _, _, _)
mine_from(index, timestamp, data, previous_hash, prefix_target, nonce) ==
    IF nonce > MaxNonce THEN NoBlock
    ELSE LET hash == compute_hash(index, timestamp, data, previous_hash, nonce)
         IN  IF starts_with(hash, prefix_target)
             THEN Block(index, timestamp, data, previous_hash, hash, nonce)
             ELSE mine_from(index, timestamp, data, previous_hash,
                            prefix_target, nonce + 1)

\* mine_block with the search started at nonce 1
mine_block_from_one(index, timestamp, data, previous_hash, difficulty) ==
    mine_from(index, timestamp, data, previous_hash, repeat("0", difficulty), 1)

mine_block(index, timestamp, data, previous_hash, difficulty) ==
    mine_from(index, timestamp, data, previous_hash, repeat("0", difficulty), 0)

(***************************************************************************)
(* Blockchain                                                              *)
(***************************************************************************)
\* a Blockchain built without the genesis block
new_chain_empty == <<>>

\* Blockchain::new(difficulty).chain
new_chain == <<genesis_block>>

last_block(chain) == chain[Len(chain)]

\* add_block without the comparisons of index and previous_hash with the tail
add_block_ret_hash_only(chain, block) ==
    compute_hash(block.index, block.timestamp, block.data,
                 block.previous_hash, block.nonce) = block.hash

\* add_block without the comparison of the recomputed hash
add_block_ret_no_hash_check(chain, block) ==
    LET last == last_block(chain) IN
    IF block.index # last.index + 1 THEN FALSE
    ELSE IF block.previous_hash # last.hash THEN FALSE
    ELSE TRUE

\* the value add_block returns
add_block_ret(chain, block) ==
    LET last == last_block(chain) IN
    IF block.index # last.index + 1 THEN FALSE
    ELSE IF block.previous_hash # last.hash THEN FALSE
    ELSE IF compute_hash(block.index, block.timestamp, block.data,
                         block.previous_hash, block.nonce) # block.hash THEN FALSE
    ELSE TRUE

\* add_block pushing the block before it is validated
add_block_chain_push_first(chain, block) == Append(chain, block)

\* self.chain after add_block
add_block_chain(chain, block) ==
    IF add_block_ret(chain, block) THEN Append(chain, block) ELSE chain

\* one iteration of the loop of is_valid_chain: TRUE when no early return
valid_link(chain, difficulty, i) ==
    LET prev == chain[i - 1]
        cur == chain[i]
        recomputed == compute_hash(cur.index, cur.timestamp, cur.previous_hash,
                                   cur.data, cur.nonce)
    IN  /\ cur.previous_hash = prev.hash
        /\ recomputed = cur.hash
        /\ starts_with(cur.hash, repeat("0", difficulty))

is_valid_chain(chain, difficulty) ==
    /\ chain # <<>>
    /\ \A i \in 2..Len(chain) : valid_link(chain, difficulty, i)

\* replace_chain accepting a candidate of equal length
replace_chain_ret_or_equal(chain, difficulty, in_chain) ==
    Len(in_chain) >= Len(chain) /\ is_valid_chain(in_chain, difficulty)

\* the value replace_chain returns
replace_chain_ret(chain, difficulty, in_chain) ==
    Len(in_chain) > Len(chain) /\ is_valid_chain(in_chain, difficulty)

\* self.chain after replace_chain
replace_chain_chain(chain, difficulty, in_chain) ==
    IF replace_chain_ret(chain, difficulty, in_chain) THEN in_chain ELSE chain

(***************************************************************************)
(* Message                                                                 *)
(***************************************************************************)
Mine(data) == [type |-> "Mine", data |-> data]
NewBlock(block) == [type |-> "NewBlock", block |-> block]
RequestChain(from_id) == [type |-> "RequestChain", from_id |-> from_id]
Chain(in_chain) == [type |-> "Chain", chain |-> in_chain]

\* no message: the loop has not received anything yet / nothing to broadcast
NoMsg == [type |-> "None"]

(***************************************************************************)
(* The network built by main                                               *)
(***************************************************************************)
\* node_total
NumNodes == 2
\* largest buffer the channels are created with (mpsc::channel(100))
MaxCapacity == 2
\* number of Mine messages the driver sends before its run_time is over
MaxMines == 2
\* the requester id the driver puts in its final RequestChain
DriverId == 999

Nodes == 0..(NumNodes - 1)

\* buffer sizes of the channels
Capacities == 1..MaxCapacity

\* difficulty values main may be built with
Difficulties == 0..MaxDifficulty

\* payloads of the driver's Mine messages
Payloads == {<<"x">>, <<"y">>}

\* values of SystemTime::now() in milliseconds read by mining tasks
Timestamps == {1}

\* the connect loop without its `if i == j { continue; }`
senders_with_self(n) == [j \in 1..NumNodes |-> j - 1]

\* Node.senders after the connect loop of main: every other node, ascending
senders(n) == SelectSeq([j \in 1..NumNodes |-> j - 1], LAMBDA j : j # n)

\* the chain lock (Arc<Mutex<Blockchain>>): free, held by the mailbox loop, or
\* held by the k-th mining task of the node (k >= 1)
Free == 0
Loop == -1

VARIABLES
    chain,       \* chain[n]: Blockchain.chain of node n
    difficulty,  \* difficulty[n]: Blockchain.difficulty of node n
    capacity,    \* the buffer size every node's channel was created with
    lock,        \* lock[n]: holder of node n's chain mutex
    mailbox,     \* mailbox[n]: messages buffered in node n's channel
    late,        \* late[n]: not program state; the number (in order of arrival)
                 \* of the newest message still in mailbox[n] that arrived
                 \* while a search of one of n's mining tasks was running, or 0
    pc,          \* pc[n]: where the loop of Node::run is
    cur,         \* cur[n]: msg, the message the loop received last
    res,         \* res[n]: what add_block / replace_chain returned to the loop last
    out,         \* out[n]: the message the loop is broadcasting
    pending,     \* pending[n]: senders the broadcast has still to send to
    deq,         \* deq[n]: number of messages the loop has received
    tasks,       \* tasks[n]: the mining tasks spawned by node n, in spawn order
    gossip,      \* gossip[n][p]: not program state; the bag of the blocks node n
                 \* (its loop or its mining tasks) has sent to p as NewBlock
    driver,      \* main: phase, Mine messages sent, next node to request; quiet
                 \* is not program state: whether no Mine message was queued
                 \* and no mining task unfinished when the RequestChain
                 \* round started
    ret          \* the last direct call on a Blockchain / Block (SpecChain)

vars == <<chain, difficulty, capacity, lock, mailbox, late, pc, cur, res, out, pending, deq,
          tasks, gossip, driver, ret>>

nodeVars == <<pc, cur, res, out, pending, deq>>

Init ==
    /\ \E d \in Difficulties : difficulty = [n \in Nodes |-> d]
    /\ capacity \in Capacities
    /\ chain = [n \in Nodes |-> new_chain]
    /\ lock = [n \in Nodes |-> Free]
    /\ mailbox = [n \in Nodes |-> <<>>]
    /\ late = [n \in Nodes |-> 0]
    /\ pc = [n \in Nodes |-> "recv"]
    /\ cur = [n \in Nodes |-> NoMsg]
    /\ res = [n \in Nodes |-> FALSE]
    /\ out = [n \in Nodes |-> NoMsg]
    /\ pending = [n \in Nodes |-> <<>>]
    /\ deq = [n \in Nodes |-> 0]
    /\ tasks = [n \in Nodes |-> <<>>]
    /\ gossip = [n \in Nodes |-> [p \in Nodes |-> EmptyBag]]
    /\ driver = [pc |-> "mine", mines |-> 0, next |-> 0, quiet |-> FALSE]
    /\ ret = [op |-> "none"]

\* p.send(msg).await: completes once the channel of p has room
CanSend(p) == Len(mailbox[p]) < capacity
Sent(p, msg) == [mailbox EXCEPT ![p] = Append(@, msg)]

\* a search of one of n's mining tasks is running
MiningInProgress(n) == \E k \in 1..Len(tasks[n]) : tasks[n][k].st = "mining"

\* late after a message arrives in the mailbox of p
LateAfterSend(p) ==
    [late EXCEPT ![p] = IF MiningInProgress(p) THEN deq[p] + Len(mailbox[p]) + 1 ELSE @]

\* gossip after node n sends NewBlock(block) to p
Gossiped(n, p, block) == [gossip EXCEPT ![n][p] = @ (+) SetToBag({block})]

\* no Mine message is queued and every mining task spawned has ended
NoMiningInFlight ==
    /\ \A n \in Nodes : \A i \in 1..Len(mailbox[n]) : mailbox[n][i].type # "Mine"
    /\ \A n \in Nodes : \A k \in 1..Len(tasks[n]) : tasks[n][k].st = "done"

\* late after the loop of n takes the oldest message
LateAfterRecv(n) ==
    [late EXCEPT ![n] = IF @ <= deq[n] + 1 THEN 0 ELSE @]

(***************************************************************************)
(* Node::run, the mailbox loop                                             *)
(***************************************************************************)
\* the task spawned for Mine(data); seen and at are not program state: they
\* record the tail of the chain and the number of messages received when the
\* Mine message was taken from the mailbox
SpawnedTask(n, data) ==
    [st |-> "spawned", data |-> data, index |-> 0, previous_hash |-> <<>>,
     difficulty |-> 0, timestamp |-> 0, block |-> NoBlock, added |-> FALSE,
     pending |-> <<>>, sent |-> <<>>,
     seen |-> last_block(chain[n]), at |-> deq[n] + 1]

\* recv() returns Mine(data): spawn the mining task and loop
RecvMine(n) ==
    /\ pc[n] = "recv"
    /\ mailbox[n] # <<>>
    /\ Head(mailbox[n]).type = "Mine"
    /\ mailbox' = [mailbox EXCEPT ![n] = Tail(@)]
    /\ late' = LateAfterRecv(n)
    /\ cur' = [cur EXCEPT ![n] = Head(mailbox[n])]
    /\ deq' = [deq EXCEPT ![n] = @ + 1]
    /\ tasks' = [tasks EXCEPT ![n] = Append(@, SpawnedTask(n, Head(mailbox[n]).data))]
    /\ UNCHANGED <<gossip, chain, difficulty, capacity, lock, pc, res, out, pending, driver, ret>>

\* the loop taking the newest message of the mailbox instead of the oldest
RecvOther_newest_first(n) ==
    LET msg == mailbox[n][Len(mailbox[n])] IN
    /\ pc[n] = "recv"
    /\ mailbox[n] # <<>>
    /\ msg.type # "Mine"
    /\ mailbox' = [mailbox EXCEPT ![n] = SubSeq(@, 1, Len(@) - 1)]
    /\ late' = LateAfterRecv(n)
    /\ cur' = [cur EXCEPT ![n] = msg]
    /\ deq' = [deq EXCEPT ![n] = @ + 1]
    /\ pc' = [pc EXCEPT ![n] = "lock"]
    /\ UNCHANGED <<gossip, chain, difficulty, capacity, lock, res, out, pending, tasks,
                   driver, ret>>

\* recv() returns NewBlock, RequestChain or Chain: go on to lock the chain
RecvOther(n) ==
    /\ pc[n] = "recv"
    /\ mailbox[n] # <<>>
    /\ Head(mailbox[n]).type # "Mine"
    /\ mailbox' = [mailbox EXCEPT ![n] = Tail(@)]
    /\ late' = LateAfterRecv(n)
    /\ cur' = [cur EXCEPT ![n] = Head(mailbox[n])]
    /\ deq' = [deq EXCEPT ![n] = @ + 1]
    /\ pc' = [pc EXCEPT ![n] = "lock"]
    /\ UNCHANGED <<gossip, chain, difficulty, capacity, lock, res, out, pending, tasks, driver, ret>>

\* the loop entering its critical section without waiting for the mutex
LoopLock_no_wait(n) ==
    /\ pc[n] = "lock"
    /\ lock' = [lock EXCEPT ![n] = Loop]
    /\ pc' = [pc EXCEPT ![n] = "crit"]
    /\ UNCHANGED <<gossip, chain, difficulty, capacity, mailbox, late, cur, res, out, pending, deq,
                   tasks, driver, ret>>

\* self.blockchain.lock().await
LoopLock(n) ==
    /\ pc[n] = "lock"
    /\ lock[n] = Free
    /\ lock' = [lock EXCEPT ![n] = Loop]
    /\ pc' = [pc EXCEPT ![n] = "crit"]
    /\ UNCHANGED <<gossip, chain, difficulty, capacity, mailbox, late, cur, res, out, pending, deq,
                   tasks, driver, ret>>

\* start self.broadcast(msg) (or finish at once when there is no sender)
StartBroadcast(n, msg) ==
    /\ out' = [out EXCEPT ![n] = IF senders(n) = <<>> THEN NoMsg ELSE msg]
    /\ pending' = [pending EXCEPT ![n] = senders(n)]
    /\ pc' = [pc EXCEPT ![n] = IF senders(n) = <<>> THEN "recv" ELSE "send"]

\* the NewBlock arm sending the block on whatever add_block returned
HandleNewBlock_rebroadcast_rejected(n) ==
    /\ pc[n] = "crit"
    /\ cur[n].type = "NewBlock"
    /\ chain' = [chain EXCEPT ![n] = add_block_chain(@, cur[n].block)]
    /\ res' = [res EXCEPT ![n] = add_block_ret(chain[n], cur[n].block)]
    /\ lock' = [lock EXCEPT ![n] = Free]
    /\ StartBroadcast(n, NewBlock(cur[n].block))
    /\ UNCHANGED <<gossip, difficulty, capacity, mailbox, late, cur, deq, tasks, driver, ret>>

\* Message::NewBlock(block): add_block, drop the lock, then broadcast
HandleNewBlock(n) ==
    /\ pc[n] = "crit"
    /\ cur[n].type = "NewBlock"
    /\ chain' = [chain EXCEPT ![n] = add_block_chain(@, cur[n].block)]
    /\ res' = [res EXCEPT ![n] = add_block_ret(chain[n], cur[n].block)]
    /\ lock' = [lock EXCEPT ![n] = Free]
    /\ IF add_block_ret(chain[n], cur[n].block)
       THEN StartBroadcast(n, NewBlock(cur[n].block))
       ELSE StartBroadcast(n, RequestChain(n))
    /\ UNCHANGED <<gossip, difficulty, capacity, mailbox, late, cur, deq, tasks, driver, ret>>

\* the RequestChain arm answering the requester only
HandleRequestChain_reply_to_requester(n) ==
    LET to == SelectSeq(senders(n), LAMBDA p : p = cur[n].from_id) IN
    /\ pc[n] = "crit"
    /\ cur[n].type = "RequestChain"
    /\ lock' = [lock EXCEPT ![n] = Free]
    /\ out' = [out EXCEPT ![n] = IF to = <<>> THEN NoMsg ELSE Chain(chain[n])]
    /\ pending' = [pending EXCEPT ![n] = to]
    /\ pc' = [pc EXCEPT ![n] = IF to = <<>> THEN "recv" ELSE "send"]
    /\ UNCHANGED <<gossip, chain, difficulty, capacity, mailbox, late, cur, res, deq, tasks, driver, ret>>

\* Message::RequestChain(from_id): copy the chain, drop the lock, broadcast
HandleRequestChain(n) ==
    /\ pc[n] = "crit"
    /\ cur[n].type = "RequestChain"
    /\ lock' = [lock EXCEPT ![n] = Free]
    /\ StartBroadcast(n, Chain(chain[n]))
    /\ UNCHANGED <<gossip, chain, difficulty, capacity, mailbox, late, cur, res, deq, tasks, driver, ret>>

\* Message::Chain(in_chain): replace_chain; the guard is dropped at the end
HandleChain(n) ==
    /\ pc[n] = "crit"
    /\ cur[n].type = "Chain"
    /\ chain' = [chain EXCEPT ![n] = replace_chain_chain(@, difficulty[n], cur[n].chain)]
    /\ res' = [res EXCEPT ![n] = replace_chain_ret(chain[n], difficulty[n], cur[n].chain)]
    /\ lock' = [lock EXCEPT ![n] = Free]
    /\ pc' = [pc EXCEPT ![n] = "recv"]
    /\ UNCHANGED <<gossip, difficulty, capacity, mailbox, late, cur, out, pending, deq, tasks, driver, ret>>

\* one iteration of the loop of broadcast: p.send(msg.clone()).await
BroadcastSend(n) ==
    /\ pc[n] = "send"
    /\ CanSend(Head(pending[n]))
    /\ mailbox' = Sent(Head(pending[n]), out[n])
    /\ late' = LateAfterSend(Head(pending[n]))
    /\ pending' = [pending EXCEPT ![n] = Tail(@)]
    /\ pc' = [pc EXCEPT ![n] = IF Tail(pending[n]) = <<>> THEN "recv" ELSE "send"]
    /\ out' = [out EXCEPT ![n] = IF Tail(pending[n]) = <<>> THEN NoMsg ELSE @]
    /\ gossip' = IF out[n].type = "NewBlock"
                 THEN Gossiped(n, Head(pending[n]), out[n].block)
                 ELSE gossip
    /\ UNCHANGED <<chain, difficulty, capacity, lock, cur, res, deq, tasks, driver, ret>>

(***************************************************************************)
(* The mining task spawned by Message::Mine (tokio::spawn)                 *)
(***************************************************************************)
TaskIds(n) == 1..Len(tasks[n])

SetTask(n, k, t) == [tasks EXCEPT ![n][k] = t]

\* the snapshot with the index of the tail instead of the next index
snapshot_tail_index(c, d) ==
    [index |-> last_block(c).index, previous_hash |-> last_block(c).hash,
     difficulty |-> d]

\* (bchain.last_block().index + 1, bchain.last_block().hash.clone(), bchain.difficulty)
snapshot(c, d) ==
    [index |-> last_block(c).index + 1, previous_hash |-> last_block(c).hash,
     difficulty |-> d]

\* blockchain_clone.lock().await, before the snapshot
TaskLockSnapshot(n, k) ==
    /\ tasks[n][k].st = "spawned"
    /\ lock[n] = Free
    /\ lock' = [lock EXCEPT ![n] = k]
    /\ tasks' = SetTask(n, k, [tasks[n][k] EXCEPT !.st = "snapshot"])
    /\ UNCHANGED <<gossip, chain, difficulty, capacity, mailbox, late, nodeVars, driver, ret>>

\* take the snapshot, drop the guard, read the clock, start the search
TaskSnapshot(n, k) ==
    /\ tasks[n][k].st = "snapshot"
    /\ \E now \in Timestamps :
         LET s == snapshot(chain[n], difficulty[n]) IN
         tasks' = SetTask(n, k, [tasks[n][k] EXCEPT
                      !.st = "mining", !.index = s.index,
                      !.previous_hash = s.previous_hash,
                      !.difficulty = s.difficulty, !.timestamp = now])
    /\ lock' = [lock EXCEPT ![n] = Free]
    /\ UNCHANGED <<gossip, chain, difficulty, capacity, mailbox, late, nodeVars, driver, ret>>

\* spawn_blocking(mine_block(..)).await returns: only if the search ends
TaskMined(n, k) ==
    LET t == tasks[n][k]
        block_mined == mine_block(t.index, t.timestamp, t.data,
                                  t.previous_hash, t.difficulty)
    IN  /\ t.st = "mining"
        /\ block_mined # NoBlock
        /\ tasks' = SetTask(n, k, [t EXCEPT !.st = "mined", !.block = block_mined])
        /\ UNCHANGED <<gossip, chain, difficulty, capacity, lock, mailbox, late, nodeVars, driver, ret>>

\* blockchain_clone.lock().await, before add_block
TaskLockAdd(n, k) ==
    /\ tasks[n][k].st = "mined"
    /\ lock[n] = Free
    /\ lock' = [lock EXCEPT ![n] = k]
    /\ tasks' = SetTask(n, k, [tasks[n][k] EXCEPT !.st = "append"])
    /\ UNCHANGED <<gossip, chain, difficulty, capacity, mailbox, late, nodeVars, driver, ret>>

\* the completion pushing and sending the mined block without add_block
TaskAddBlock_push_unchecked(n, k) ==
    LET t == tasks[n][k]
    IN  /\ t.st = "append"
        /\ chain' = [chain EXCEPT ![n] = Append(@, t.block)]
        /\ lock' = [lock EXCEPT ![n] = Free]
        /\ tasks' = SetTask(n, k, [t EXCEPT
                       !.added = TRUE,
                       !.pending = senders(n),
                       !.st = IF senders(n) # <<>> THEN "send" ELSE "done"])
        /\ UNCHANGED <<gossip, difficulty, capacity, mailbox, late, nodeVars, driver, ret>>

\* the completion broadcasting the mined block whatever add_block returned
TaskAddBlock_broadcast_always(n, k) ==
    LET t == tasks[n][k]
        ok == add_block_ret(chain[n], t.block)
    IN  /\ t.st = "append"
        /\ chain' = [chain EXCEPT ![n] = add_block_chain(@, t.block)]
        /\ lock' = [lock EXCEPT ![n] = Free]
        /\ tasks' = SetTask(n, k, [t EXCEPT
                       !.added = ok,
                       !.pending = senders(n),
                       !.st = IF senders(n) # <<>> THEN "send" ELSE "done"])
        /\ UNCHANGED <<gossip, difficulty, capacity, mailbox, late, nodeVars, driver, ret>>

\* bchain.add_block(block_mined.clone()); the guard is dropped on both branches
TaskAddBlock(n, k) ==
    LET t == tasks[n][k]
        ok == add_block_ret(chain[n], t.block)
    IN  /\ t.st = "append"
        /\ chain' = [chain EXCEPT ![n] = add_block_chain(@, t.block)]
        /\ lock' = [lock EXCEPT ![n] = Free]
        /\ tasks' = SetTask(n, k, [t EXCEPT
                       !.added = ok,
                       !.pending = IF ok THEN senders(n) ELSE <<>>,
                       !.st = IF ok /\ senders(n) # <<>> THEN "send" ELSE "done"])
        /\ UNCHANGED <<gossip, difficulty, capacity, mailbox, late, nodeVars, driver, ret>>

\* for p in senders_clone: p.send(NewBlock(block_mined.clone())).await
TaskSend(n, k) ==
    LET t == tasks[n][k]
        p == Head(t.pending)
    IN  /\ t.st = "send"
        /\ CanSend(p)
        /\ mailbox' = Sent(p, NewBlock(t.block))
        /\ late' = LateAfterSend(p)
        /\ tasks' = SetTask(n, k, [t EXCEPT
                       !.pending = Tail(@),
                       !.sent = Append(@, p),
                       !.st = IF Tail(t.pending) = <<>> THEN "done" ELSE "send"])
        /\ gossip' = Gossiped(n, p, t.block)
        /\ UNCHANGED <<chain, difficulty, capacity, lock, nodeVars, driver, ret>>

(***************************************************************************)
(* main, the driver                                                        *)
(***************************************************************************)
\* transactions[somene].send(Message::Mine(data)).await, while run_time lasts
DriverMine ==
    /\ driver.pc = "mine"
    /\ \E somene \in Nodes, data \in Payloads :
         /\ CanSend(somene)
         /\ mailbox' = Sent(somene, Mine(data))
         /\ late' = LateAfterSend(somene)
    /\ driver' = [driver EXCEPT
                    !.mines = @ + 1,
                    !.pc = IF driver.mines + 1 = MaxMines THEN "request" ELSE "mine"]
    /\ UNCHANGED <<gossip, chain, difficulty, capacity, lock, nodeVars, tasks, ret>>

\* for tx in &transactions: tx.send(Message::RequestChain(999)).await
DriverRequestChain ==
    /\ driver.pc = "request"
    /\ CanSend(driver.next)
    /\ mailbox' = Sent(driver.next, RequestChain(DriverId))
    /\ late' = LateAfterSend(driver.next)
    /\ driver' = [driver EXCEPT
                    !.next = @ + 1,
                    !.quiet = IF driver.next = 0 THEN NoMiningInFlight ELSE @,
                    !.pc = IF driver.next + 1 = NumNodes THEN "done" ELSE "request"]
    /\ UNCHANGED <<gossip, chain, difficulty, capacity, lock, nodeVars, tasks, ret>>

Next ==
    \/ DriverMine
    \/ DriverRequestChain
    \/ \E n \in Nodes : RecvMine(n)
    \/ \E n \in Nodes : RecvOther(n)
    \/ \E n \in Nodes : LoopLock(n)
    \/ \E n \in Nodes : HandleNewBlock(n)
    \/ \E n \in Nodes : HandleRequestChain(n)
    \/ \E n \in Nodes : HandleChain(n)
    \/ \E n \in Nodes : BroadcastSend(n)
    \/ \E n \in Nodes : \E k \in TaskIds(n) : TaskLockSnapshot(n, k)
    \/ \E n \in Nodes : \E k \in TaskIds(n) : TaskSnapshot(n, k)
    \/ \E n \in Nodes : \E k \in TaskIds(n) : TaskMined(n, k)
    \/ \E n \in Nodes : \E k \in TaskIds(n) : TaskLockAdd(n, k)
    \/ \E n \in Nodes : \E k \in TaskIds(n) : TaskAddBlock(n, k)
    \/ \E n \in Nodes : \E k \in TaskIds(n) : TaskSend(n, k)

Spec == Init /\ [][Next]_vars

(***************************************************************************)
(* Direct calls on one Blockchain (that of node Callee) and on             *)
(* Block::mine_block, with arguments drawn from bounded sets: blocks and   *)
(* chains that are well formed, and ones altered after hashing.            *)
(***************************************************************************)
\* longest chain the direct calls build
MaxChainLen == 3

Callee == CHOOSE n \in Nodes : \A m \in Nodes : n <= m

\* payloads of directly built blocks: the empty text and one of the driver's
CallPayloads == {<<>>, <<"x">>}

\* a block altered after it was hashed
Tampered(b) ==
    { [b EXCEPT !.data = <<"x", "x">>],
      [b EXCEPT !.hash = genesis_block.hash],
      [b EXCEPT !.nonce = @ + 1],
      [b EXCEPT !.index = @ + 1] }

\* candidate arguments of add_block on chain c
CandidateBlocks(c) ==
    LET last == last_block(c)
        hashed == { new_block(i, ts, data, ph, 0) :
                      i \in {last.index, last.index + 1, last.index + 2},
                      ts \in Timestamps, data \in CallPayloads,
                      ph \in {last.hash, genesis_block.previous_hash} }
        mined == { mine_block(last.index + 1, ts, data, last.hash, d) :
                      ts \in Timestamps, data \in CallPayloads,
                      d \in Difficulties } \ {NoBlock}
    IN  hashed \cup mined \cup UNION { Tampered(b) : b \in hashed \cup mined }

\* the chains of length len built from genesis by mining at difficulty d and
\* appending with add_block
RECURSIVE BuiltChains(_, _)
BuiltChains(d, len) ==
    IF len = 1 THEN {new_chain}
    ELSE { add_block_chain(c, b) :
             <<c, b>> \in { <<c, mine_block(last_block(c).index + 1, ts, data,
                                             last_block(c).hash, d)>> :
                              c \in BuiltChains(d, len - 1),
                              ts \in Timestamps, data \in CallPayloads }
                          \ { <<c, NoBlock>> : c \in BuiltChains(d, len - 1) } }

\* candidate arguments of replace_chain: built chains, and ones that are
\* empty, altered in one block, or broken in one link
CandidateChains ==
    LET built == UNION { BuiltChains(d, len) :
                            d \in Difficulties, len \in 1..MaxChainLen }
        altered == { [c EXCEPT ![i] = t] : <<c, i, t>> \in
                       UNION { { <<c, i, t>> : t \in { [c[i] EXCEPT !.data = <<"x", "x">>],
                                                       [c[i] EXCEPT !.hash = genesis_block.hash] } } :
                                 <<c, i>> \in UNION { {c} \X (2..Len(c)) : c \in built } } }
        broken == { [c EXCEPT ![Len(c)] = new_block(@.index, @.timestamp, @.data,
                                                    genesis_block.hash, @.nonce)] :
                      c \in { b \in built : Len(b) >= 3 } }
    IN  built \cup altered \cup broken \cup {<<>>}

CallMineBlock ==
    \E ts \in Timestamps, data \in CallPayloads, d \in Difficulties :
      LET last == last_block(chain[Callee]) IN
      /\ ret' = [op |-> "mine_block", index |-> last.index + 1, timestamp |-> ts,
                 data |-> data, previous_hash |-> last.hash, difficulty |-> d,
                 block |-> mine_block(last.index + 1, ts, data, last.hash, d)]
      /\ UNCHANGED <<gossip, chain, difficulty, capacity, lock, mailbox, late, nodeVars, tasks, driver>>

CallAddBlock ==
    /\ Len(chain[Callee]) < MaxChainLen
    /\ \E block \in CandidateBlocks(chain[Callee]) :
         /\ chain' = [chain EXCEPT ![Callee] = add_block_chain(@, block)]
         /\ ret' = [op |-> "add_block", block |-> block, before |-> chain[Callee],
                    result |-> add_block_ret(chain[Callee], block)]
    /\ UNCHANGED <<gossip, difficulty, capacity, lock, mailbox, late, nodeVars, tasks, driver>>

CallReplaceChain ==
    \E in_chain \in CandidateChains :
      /\ chain' = [chain EXCEPT ![Callee] =
                      replace_chain_chain(@, difficulty[Callee], in_chain)]
      /\ ret' = [op |-> "replace_chain", in_chain |-> in_chain,
                 before |-> chain[Callee],
                 result |-> replace_chain_ret(chain[Callee], difficulty[Callee],
                                              in_chain)]
      /\ UNCHANGED <<gossip, difficulty, capacity, lock, mailbox, late, nodeVars, tasks, driver>>

CallIsValidChain ==
    \E c \in CandidateChains, d \in Difficulties :
      /\ d = difficulty[Callee]
      /\ ret' = [op |-> "is_valid_chain", chain |-> c, difficulty |-> d,
                 result |-> is_valid_chain(c, d)]
      /\ UNCHANGED <<gossip, chain, difficulty, capacity, lock, mailbox, late, nodeVars, tasks, driver>>

NextChain ==
    \/ CallMineBlock
    \/ CallIsValidChain
    \/ CallAddBlock
    \/ CallReplaceChain

\* the channels play no part in direct calls
InitChain == Init /\ capacity = 1

SpecChain == InitChain /\ [][NextChain]_vars

(***************************************************************************)
(* Properties of Blockchain and Block::mine_block (SpecChain)              *)
(***************************************************************************)
\* the hash recomputed from a block's own fields, in the order of the fields
OwnHash(b) == compute_hash(b.index, b.timestamp, b.data, b.previous_hash, b.nonce)

MeetsDifficulty(hash, d) == starts_with(hash, repeat("0", d))

\* validity of a chain as stated for isValidChain
ValidChainAsStated(c, d) ==
    /\ c # <<>>
    /\ \A i \in 2..Len(c) :
         /\ c[i].previous_hash = c[i - 1].hash
         /\ OwnHash(c[i]) = c[i].hash
         /\ MeetsDifficulty(c[i].hash, d)

\* C1: replace_chain returns true, and the chain becomes the candidate, if
\* and only if the candidate is strictly longer than the current chain and
\* valid for the node's difficulty; otherwise the chain stays as it was.
C1_ReplaceIffLongerAndValid ==
    ret.op = "replace_chain" =>
      /\ ret.result <=> /\ Len(ret.in_chain) > Len(ret.before)
                        /\ ValidChainAsStated(ret.in_chain, difficulty[Callee])
      /\ chain[Callee] = IF ret.result THEN ret.in_chain ELSE ret.before

\* C2: is_valid_chain returns true exactly for the non-empty chains whose
\* blocks from position 1 on link to their predecessor's hash, store the hash
\* of their own fields and meet the difficulty.
C2_IsValidChainAsStated ==
    ret.op = "is_valid_chain" =>
      (ret.result <=> ValidChainAsStated(ret.chain, ret.difficulty))

\* C3: add_block returns true and appends the candidate as the new tail if
\* and only if its index is the tail's index plus one, its previous_hash is
\* the tail's hash and its stored hash is the hash of its own fields; the
\* difficulty is not consulted.
C3_AddBlockIffLinkedAndHashed ==
    ret.op = "add_block" =>
      LET tail == last_block(ret.before) IN
      /\ ret.result <=> /\ ret.block.index = tail.index + 1
                        /\ ret.block.previous_hash = tail.hash
                        /\ OwnHash(ret.block) = ret.block.hash
      /\ ret.result <=> chain[Callee] = Append(ret.before, ret.block)

\* C3 witness: a block whose hash misses the difficulty target was appended
C3_Witness ==
    /\ ret.op = "add_block"
    /\ ret.result
    /\ difficulty[Callee] >= 1
    /\ ~MeetsDifficulty(ret.block.hash, difficulty[Callee])
    /\ last_block(chain[Callee]) = ret.block

\* C4: when add_block returns false the chain is exactly what it was before
\* the call.
C4_RejectedAddLeavesChain ==
    (ret.op = "add_block" /\ ~ret.result) => chain[Callee] = ret.before

\* C4 witness: a candidate with the right index and link whose data was
\* altered after hashing was rejected, on a chain of more than the genesis
C4_Witness ==
    /\ ret.op = "add_block"
    /\ ~ret.result
    /\ ret.block.index = last_block(ret.before).index + 1
    /\ ret.block.previous_hash = last_block(ret.before).hash
    /\ OwnHash(ret.block) # ret.block.hash
    /\ Len(ret.before) >= 2

\* C6: when the search of mine_block ends, the block carries the given
\* index, timestamp, data and previous_hash, its nonce is the smallest one
\* whose hash has `difficulty` leading zeros, its hash is that hash, and at
\* difficulty 0 the nonce is 0; the search does not end only when no nonce
\* up to MaxNonce qualifies.
C6_MineBlockSmallestNonce ==
    ret.op = "mine_block" =>
      LET HashAt(nonce) == compute_hash(ret.index, ret.timestamp, ret.data,
                                        ret.previous_hash, nonce)
          Qualifies(nonce) == MeetsDifficulty(HashAt(nonce), ret.difficulty)
          b == ret.block
      IN  IF b = NoBlock
          THEN \A nonce \in 0..MaxNonce : ~Qualifies(nonce)
          ELSE /\ b.index = ret.index
               /\ b.timestamp = ret.timestamp
               /\ b.data = ret.data
               /\ b.previous_hash = ret.previous_hash
               /\ Qualifies(b.nonce)
               /\ \A nonce \in 0..(b.nonce - 1) : ~Qualifies(nonce)
               /\ b.hash = HashAt(b.nonce)
               /\ (ret.difficulty = 0 => b.nonce = 0)

\* C6 witness: a search at difficulty >= 1 that passed over nonces and ended
C6_Witness ==
    /\ ret.op = "mine_block"
    /\ ret.block # NoBlock
    /\ ret.difficulty >= 1
    /\ ret.block.nonce >= 2

(***************************************************************************)
(* Properties of the node actors (Spec)                                    *)
(***************************************************************************)
\* the loop of node n completes its critical section in this step
LoopHandles(n, type) == pc[n] = "crit" /\ cur[n].type = type /\ pc'[n] # "crit"

\* C5: replace_chain rejects every candidate that is not longer than the
\* current chain; a Chain message that is not adopted leaves the chain and
\* every other part of the node as it was and sends nothing: the loop goes
\* straight back to receiving.
C5_RejectedChainNoEffect ==
    [][\A n \in Nodes :
         LoopHandles(n, "Chain") =>
           /\ Len(cur[n].chain) <= Len(chain[n]) => ~res'[n]
           /\ ~res'[n] =>
                /\ chain' = chain
                /\ mailbox' = mailbox
                /\ tasks' = tasks
                /\ out'[n] = NoMsg /\ pending'[n] = <<>>
                /\ pc'[n] = "recv"]_vars

\* C5 witness: a Chain message carrying a different chain of the same length
\* (a fork of two blocks each) was handled and rejected
C5_Witness ==
    \E n \in Nodes :
      /\ pc[n] = "recv"
      /\ cur[n].type = "Chain"
      /\ ~res[n]
      /\ Len(cur[n].chain) = Len(chain[n])
      /\ Len(chain[n]) >= 2
      /\ cur[n].chain # chain[n]
      /\ ValidChainAsStated(cur[n].chain, difficulty[n])

Snapshotted(t) == t.st \notin {"spawned", "snapshot"}

\* C7 as stated: the snapshot of every mining task is the tail of the chain
\* as it was when its Mine message was dequeued.
C7_SnapshotOfChainAtDequeue ==
    \A n \in Nodes : \A k \in TaskIds(n) :
      LET t == tasks[n][k] IN
      Snapshotted(t) =>
        /\ t.index = t.seen.index + 1
        /\ t.previous_hash = t.seen.hash

\* C7 amended: the spawned task takes the snapshot itself, holding the chain
\* lock, before the search starts: it is the tail of the chain at that
\* moment, never older than the chain at dequeue, and nothing changes it,
\* nor the block the search is given, afterwards.
C7_SnapshotTakenByTask ==
    [][\A n \in Nodes : \A k \in TaskIds(n) :
         LET t == tasks[n][k]
             u == tasks'[n][k]
         IN  /\ (t.st = "snapshot" /\ u.st # "snapshot") =>
                  /\ lock[n] = k
                  /\ u.st = "mining"
                  /\ u.index = last_block(chain[n]).index + 1
                  /\ u.previous_hash = last_block(chain[n]).hash
                  /\ u.difficulty = difficulty[n]
             /\ Snapshotted(t) =>
                  /\ u.index = t.index
                  /\ u.previous_hash = t.previous_hash
                  /\ u.difficulty = t.difficulty
                  /\ u.timestamp = t.timestamp
             /\ Snapshotted(u) =>
                  /\ u.index >= u.seen.index + 1
                  /\ (u.index = u.seen.index + 1 => u.previous_hash = u.seen.hash)
             /\ u.block # NoBlock =>
                  /\ u.block.index = u.index
                  /\ u.block.previous_hash = u.previous_hash
                  /\ u.block.data = u.data]_vars

\* C7 witness: a search runs on a snapshot newer than the chain at dequeue
C7_Witness ==
    \E n \in Nodes : \E k \in TaskIds(n) :
      /\ tasks[n][k].st = "mining"
      /\ tasks[n][k].index > tasks[n][k].seen.index + 1

\* C8: the completion of a mining task calls add_block with the mined block;
\* it holds the lock for that; NewBlock(block) goes to every sender, one
\* after the other, exactly when add_block returned true; when the chain no
\* longer ends where the snapshot was taken the block is rejected, the chain
\* and the mailboxes are unchanged, and the task ends without another try.
C8_MinedBlockBroadcastIffAdded ==
    [][\A n \in Nodes : \A k \in TaskIds(n) :
         LET t == tasks[n][k]
             u == tasks'[n][k]
             stale == \/ last_block(chain[n]).index + 1 # t.index
                      \/ last_block(chain[n]).hash # t.previous_hash
         IN  /\ (t.st = "append" /\ u.st # "append") =>
                  /\ lock[n] = k
                  /\ u.added = add_block_ret(chain[n], t.block)
                  /\ stale => ~u.added
                  /\ mailbox' = mailbox
                  /\ IF u.added
                     THEN /\ chain'[n] = Append(chain[n], t.block)
                          /\ u.pending = senders(n)
                          /\ u.st = "send"
                     ELSE /\ chain' = chain
                          /\ u.pending = <<>>
                          /\ u.st = "done"
             /\ (t.st = "send" /\ u # t) =>
                  /\ t.added
                  /\ mailbox' = Sent(Head(t.pending), NewBlock(t.block))
                  /\ u.sent = Append(t.sent, Head(t.pending))
                  /\ u.pending = Tail(t.pending)
             /\ u.st = "send" => u.sent \o u.pending = senders(n)
             /\ u.st = "done" => u.sent = (IF u.added THEN senders(n) ELSE <<>>)
             /\ t.st = "done" => u = t]_vars

\* C8 witness: of two completions of one node, the first appended its block
\* and sent it to every sender, the second found the chain advanced and ended
\* rejected with nothing sent
C8_Witness ==
    \E n \in Nodes : \E j, k \in TaskIds(n) :
      /\ tasks[n][j].st = "done" /\ tasks[n][j].added
      /\ tasks[n][j].sent = senders(n) /\ senders(n) # <<>>
      /\ tasks[n][k].st = "done" /\ ~tasks[n][k].added
      /\ tasks[n][k].block # NoBlock
      /\ tasks[n][k].sent = <<>>
      /\ last_block(chain[n]).index + 1 # tasks[n][k].index

\* C9 as stated, in the form a finite run refutes: a message that arrived in
\* a node's mailbox while one of the node's searches was running and has not
\* been dequeued yet is never left with every loop, task and the driver
\* unable to take a step.
C9_ArrivedWhileMiningIsDequeued ==
    \A n \in Nodes : late[n] > deq[n] => ENABLED Next

\* C10 as stated, for Mine: the broadcast a Mine message triggers is over
\* before the loop dequeues the next message.
C10_MineBroadcastBeforeNextDequeue ==
    \A n \in Nodes : \A k \in TaskIds(n) :
      tasks[n][k].st = "send" => deq[n] = tasks[n][k].at

\* C10 amended: the loop dequeues only when it is idle (no lock held, no
\* broadcast pending), always the oldest message, and messages only ever
\* join a mailbox at the back; for NewBlock, RequestChain and Chain the
\* handling with its broadcast is over before the next dequeue, for Mine the
\* handling that is over is the spawning of the task.
C10_OneAtATimeInOrder ==
    [][\A n \in Nodes :
         /\ deq'[n] # deq[n] =>
              /\ pc[n] = "recv" /\ pending[n] = <<>> /\ lock[n] # Loop
              /\ mailbox[n] # <<>>
              /\ deq'[n] = deq[n] + 1
              /\ cur'[n] = Head(mailbox[n])
              /\ mailbox'[n] = Tail(mailbox[n])
              /\ IF cur'[n].type = "Mine"
                 THEN /\ pc'[n] = "recv"
                      /\ Len(tasks'[n]) = Len(tasks[n]) + 1
                      /\ tasks'[n][Len(tasks'[n])].st = "spawned"
                      /\ tasks'[n][Len(tasks'[n])].data = cur'[n].data
                 ELSE pc'[n] = "lock" /\ tasks' = tasks
         /\ deq'[n] = deq[n] =>
              /\ cur'[n] = cur[n]
              /\ \/ mailbox'[n] = mailbox[n]
                 \/ /\ Len(mailbox'[n]) = Len(mailbox[n]) + 1
                    /\ SubSeq(mailbox'[n], 1, Len(mailbox[n])) = mailbox[n]
         /\ pc[n] # "recv" => deq'[n] = deq[n]]_vars

\* C10 witness: a loop is in the middle of a broadcast while two different
\* messages wait in its mailbox, and one of its mining tasks is broadcasting
\* after later messages were dequeued
C10_Witness ==
    \E n \in Nodes :
      /\ pc[n] = "send"
      /\ Len(mailbox[n]) = 2
      /\ mailbox[n][1] # mailbox[n][2]
      /\ \E k \in TaskIds(n) : tasks[n][k].st = "send" /\ deq[n] > tasks[n][k].at

(***************************************************************************)
(* Properties of the handling of NewBlock and RequestChain (Spec)          *)
(***************************************************************************)
\* s lists every node other than n exactly once
IsPeerList(n, s) ==
    /\ Len(s) = Cardinality(Nodes \ {n})
    /\ {s[i] : i \in 1..Len(s)} = Nodes \ {n}

\* the loop of n starts the broadcast of msg in this step, sending nothing yet
StartsBroadcastOf(n, msg) ==
    /\ out'[n] = msg
    /\ IsPeerList(n, pending'[n])
    /\ pc'[n] = "send"
    /\ mailbox' = mailbox
    /\ gossip' = gossip

\* while the loop of n is broadcasting, a step either leaves the broadcast
\* where it is, or sends the message being broadcast, as it was when the
\* broadcast started, to the next peer and to nobody else, and leaves every
\* chain alone
BroadcastStepOf(n, msg) ==
    /\ out[n] = msg
    /\ pending[n] # <<>>
    /\ \A i \in 1..Len(pending[n]) : pending[n][i] # n
    /\ IF pending'[n] # pending[n]
       THEN /\ pending'[n] = Tail(pending[n])
            /\ mailbox' = [mailbox EXCEPT ![Head(pending[n])] = Append(@, msg)]
            /\ chain' = chain
            /\ pc'[n] = IF pending'[n] = <<>> THEN "recv" ELSE "send"
       ELSE /\ out'[n] = out[n]
            /\ pc'[n] = "send"
            /\ cur'[n] = cur[n]
            /\ res'[n] = res[n]

\* C11: when the loop handles NewBlock(block) and add_block returns true, the
\* block becomes the tail of the chain and the identical NewBlock(block)
\* message is sent once to every other node, never to the node itself, and
\* no RequestChain is sent for it.
C11_AcceptedBlockRebroadcast ==
    [][\A n \in Nodes :
         /\ (LoopHandles(n, "NewBlock") /\ res'[n]) =>
              /\ add_block_ret(chain[n], cur[n].block)
              /\ chain'[n] = Append(chain[n], cur[n].block)
              /\ StartsBroadcastOf(n, cur[n])
         /\ (pc[n] = "send" /\ cur[n].type = "NewBlock" /\ res[n]) =>
              /\ BroadcastStepOf(n, cur[n])
              /\ out[n].type # "RequestChain"]_vars

\* C11 witness: a node accepted a NewBlock message and its loop has sent the
\* same message on: it is the newest message in the other node's mailbox
C11_Witness ==
    \E n \in Nodes : \E p \in Nodes \ {n} :
      /\ pc[n] = "recv"
      /\ cur[n].type = "NewBlock"
      /\ res[n]
      /\ last_block(chain[n]) = cur[n].block
      /\ mailbox[p] # <<>>
      /\ mailbox[p][Len(mailbox[p])] = cur[n]
      /\ BagIn(cur[n].block, gossip[n][p])

\* C12: when the loop handles NewBlock(block) and add_block returns false,
\* the chain is unchanged, RequestChain carrying the node's own id is sent
\* once to every other node, and the block is not sent on.
C12_RejectedBlockRequestsChain ==
    [][\A n \in Nodes :
         /\ (LoopHandles(n, "NewBlock") /\ ~res'[n]) =>
              /\ ~add_block_ret(chain[n], cur[n].block)
              /\ chain' = chain
              /\ StartsBroadcastOf(n, [type |-> "RequestChain", from_id |-> n])
         /\ (pc[n] = "send" /\ cur[n].type = "NewBlock" /\ ~res[n]) =>
              /\ BroadcastStepOf(n, [type |-> "RequestChain", from_id |-> n])
              /\ out[n].type # "NewBlock"]_vars

\* C12 witness: a node rejected a block it already holds and its request,
\* carrying its own id, is the newest message in the other node's mailbox
C12_Witness ==
    \E n \in Nodes : \E p \in Nodes \ {n} :
      /\ pc[n] = "recv"
      /\ cur[n].type = "NewBlock"
      /\ ~res[n]
      /\ \E i \in 1..Len(chain[n]) : chain[n][i] = cur[n].block
      /\ mailbox[p] # <<>>
      /\ mailbox[p][Len(mailbox[p])] = [type |-> "RequestChain", from_id |-> n]

\* C13: when the loop handles RequestChain(from_id), whatever from_id is, it
\* copies its chain, leaves the chain unchanged, and sends Chain(copy) once to
\* every other node; the copy sent is the chain as it was at the handling,
\* also when the chain grows while the broadcast is under way.
C13_RequestChainBroadcastsCopy ==
    [][\A n \in Nodes :
         /\ LoopHandles(n, "RequestChain") =>
              /\ chain' = chain
              /\ StartsBroadcastOf(n, [type |-> "Chain", chain |-> chain[n]])
         /\ (pc[n] = "send" /\ cur[n].type = "RequestChain") =>
              /\ out[n].type = "Chain"
              /\ BroadcastStepOf(n, out[n])]_vars

\* C13 witness: a node is sending the copy made for the driver's request (an
\* id that is no node's) after its own chain has grown, while the other node
\* last handled a request carrying a node's id
C13_Witness ==
    \E n \in Nodes : \E m \in Nodes \ {n} :
      /\ pc[n] = "send"
      /\ cur[n] = [type |-> "RequestChain", from_id |-> DriverId]
      /\ out[n].type = "Chain"
      /\ out[n].chain # chain[n]
      /\ Len(chain[n]) = Len(out[n].chain) + 1
      /\ cur[m].type = "RequestChain"
      /\ cur[m].from_id \in Nodes

(***************************************************************************)
(* Properties of the chains, the chain lock and the gossip (Spec)          *)
(***************************************************************************)
\* C14: in every reachable state every node's chain is non-empty and starts
\* with the genesis block every node is built with, so last_block always has
\* a block to return.
C14_GenesisFirst ==
    \A n \in Nodes :
      /\ chain[n] # <<>>
      /\ chain[n][1] = genesis_block

\* C14 witness: a node whose chain has grown to three blocks has handled a
\* Chain message and still starts with the genesis block
C14_Witness ==
    \E n \in Nodes :
      /\ Len(chain[n]) >= 3
      /\ chain[n][1] = genesis_block
      /\ cur[n].type = "Chain"
      /\ pc[n] = "recv"

\* C15: in every reachable state the index of every block of every node's
\* chain is its position (0, 1, 2, ...) and every block after the first
\* carries the hash of the block before it as previous_hash.
C15_IndexedAndLinked ==
    \A n \in Nodes : \A i \in 1..Len(chain[n]) :
      /\ chain[n][i].index = i - 1
      /\ i >= 2 => chain[n][i].previous_hash = chain[n][i - 1].hash

\* C15 witness: after Mine, NewBlock, RequestChain and Chain handling one
\* node holds three blocks and the other, which handled a Chain message, two
C15_Witness ==
    \E n \in Nodes : \E m \in Nodes \ {n} :
      /\ Len(chain[n]) = 3
      /\ Len(chain[m]) = 2
      /\ cur[m].type = "Chain"
      /\ pc[m] = "recv" /\ pc[n] = "recv"

\* the units of work of node n that are inside a critical section on the
\* chain: the loop between locking and dropping the guard, a mining task
\* taking its snapshot or calling add_block
InCriticalSection(n) ==
    (IF pc[n] = "crit" THEN {Loop} ELSE {})
      \cup {k \in TaskIds(n) : tasks[n][k].st \in {"snapshot", "append"}}

\* C16: at most one unit of work of a node (its loop or one mining task) is
\* inside a critical section, and it is the holder of the chain lock; the
\* chain changes, the snapshot is taken and the chain is copied or compared
\* only by the holder; a unit holds the lock neither while its search runs
\* nor while one of its sends is pending.
C16_ChainLockDiscipline ==
    /\ [](\A n \in Nodes :
            /\ InCriticalSection(n) = (IF lock[n] = Free THEN {} ELSE {lock[n]})
            /\ pc[n] = "send" => lock[n] # Loop
            /\ \A k \in TaskIds(n) :
                 tasks[n][k].st \in {"mining", "mined", "send", "done"} => lock[n] # k)
    /\ [][\A n \in Nodes :
            /\ chain'[n] # chain[n] => (lock[n] # Free /\ lock'[n] = Free)
            /\ \A k \in TaskIds(n) :
                 (~Snapshotted(tasks[n][k]) /\ Snapshotted(tasks'[n][k])) => lock[n] = k
            /\ \A k \in TaskIds(n) :
                 (tasks[n][k].st = "append" /\ tasks'[n][k].st # "append") => lock[n] = k
            /\ (res'[n] # res[n] \/ (out[n] = NoMsg /\ out'[n] # NoMsg)) => lock[n] = Loop
            /\ (lock[n] # Free /\ lock'[n] # lock[n]) => lock'[n] = Free]_vars

\* C16 witness: a mining task holds the lock to call add_block while the
\* loop waits for the lock and another task's search is running
C16_Witness ==
    \E n \in Nodes : \E j, k \in TaskIds(n) :
      /\ lock[n] = k
      /\ tasks[n][k].st = "append"
      /\ pc[n] = "lock"
      /\ tasks[n][j].st = "mining"

\* no block occurs twice in chain c
NoBlockTwice(c) == \A i, j \in 1..Len(c) : c[i] = c[j] => i = j

\* C17: a node never holds the same block twice, and over the whole run it
\* sends NewBlock for a given block to a given peer at most once, counting
\* the sends of its loop and of its mining tasks.
C17_NewBlockSentAtMostOnce ==
    \A n \in Nodes :
      /\ NoBlockTwice(chain[n])
      /\ \A p \in Nodes : \A b \in BagToSet(gossip[n][p]) : CopiesIn(b, gossip[n][p]) = 1

\* C17 witness: a node that mined a block and sent it got the same block back
\* from its peer, rejected it, and has still sent it only once
C17_Witness ==
    \E n \in Nodes : \E p \in Nodes \ {n} :
      /\ cur[n].type = "NewBlock"
      /\ ~res[n]
      /\ pc[n] = "recv"
      /\ \E k \in TaskIds(n) : tasks[n][k].st = "done" /\ tasks[n][k].block = cur[n].block
      /\ CopiesIn(cur[n].block, gossip[n][p]) = 1
      /\ CopiesIn(cur[n].block, gossip[p][n]) = 1

\* every message has been handled, every task has ended, the driver is done
Quiescent ==
    /\ driver.pc = "done"
    /\ \A n \in Nodes : mailbox[n] = <<>> /\ pc[n] = "recv"
    /\ \A n \in Nodes : \A k \in TaskIds(n) : tasks[n][k].st = "done"

\* C18 as stated, in the form a finite run refutes: when the RequestChain
\* round started with no mining in flight (all nodes share one difficulty)
\* and every resulting message has been handled, all chains have the length
\* of the longest one.
C18_ReconciledLengths ==
    (driver.quiet /\ Quiescent) =>
      \A n, m \in Nodes : Len(chain[n]) = Len(chain[m])

\* the loops of the nodes of S are each suspended in a send to the full
\* mailbox of a node of S
CircularWait(S) ==
    \A n \in S :
      /\ pc[n] = "send"
      /\ ~CanSend(Head(pending[n]))
      /\ Head(pending[n]) \in S

\* C19 as stated: no set of loops is ever in a circular wait.
C19_NoCircularWait ==
    \A S \in SUBSET Nodes : S # {} => ~CircularWait(S)

\* two mining tasks whose snapshots were taken from the same tail block
SameSnapshot(t, u) ==
    /\ Snapshotted(t) /\ Snapshotted(u)
    /\ t.index = u.index
    /\ t.previous_hash = u.previous_hash

\* C20: of the mining tasks of one node that took their snapshot from the
\* same tail block at most one has its block appended; only a task whose
\* block was appended sends NewBlock; a task that ended without appending
\* has left the chain without its block and sent nothing.
C20_OneWinnerPerSnapshot ==
    \A n \in Nodes : \A j, k \in TaskIds(n) :
      LET t == tasks[n][j]
          u == tasks[n][k]
      IN  /\ (j # k /\ SameSnapshot(t, u)) => ~(t.added /\ u.added)
          /\ (t.sent # <<>> \/ t.st = "send") => t.added
          /\ t.added => \E i \in 1..Len(chain[n]) : chain[n][i] = t.block
          /\ (j # k /\ SameSnapshot(t, u) /\ t.added /\ u.st = "done") =>
               /\ u.sent = <<>>
               /\ u.block # t.block =>
                    \A i \in 1..Len(chain[n]) : chain[n][i] # u.block

\* C20 witness: of two tasks with the same snapshot the one spawned second
\* completed first and was appended and sent; the one spawned first ended
\* rejected
C20_Witness ==
    \E n \in Nodes : \E j, k \in TaskIds(n) :
      /\ j < k
      /\ SameSnapshot(tasks[n][j], tasks[n][k])
      /\ tasks[n][k].st = "done" /\ tasks[n][k].added
      /\ tasks[n][k].sent = senders(n)
      /\ tasks[n][j].st = "done" /\ ~tasks[n][j].added
      /\ tasks[n][j].block # NoBlock
      /\ tasks[n][j].block # tasks[n][k].block

====
